---------------------------- MODULE Spec2Model ----------------------------
(***************************************************************************)
(* A model of the spatial-indexing and statistics helpers of COAsT:        *)
(*   coast/general_utils.py  subset_indices_by_distance, nearest_indices_2D*)
(*                           calculate_haversine_distance,                 *)
(*                           remove_indices_by_mask,                       *)
(*                           reinstate_indices_by_mask                     *)
(*   coast/stats_util.py     find_maxima, doodson_x0_filter,               *)
(*                           normal_distribution, cumulative_distribution, *)
(*                           empirical_distribution                        *)
(*                                                                         *)
(* Arrays are numpy arrays: a record [shape, data] whose data is the       *)
(* C-order (row-major) buffer.  Angles are degrees on a 60-degree lattice, *)
(* for which the haversine term is an exact multiple of 1/16; arcs are     *)
(* fixed-point, in units of 1e-4 radian.  NaN is one distinguished value.  *)
(***************************************************************************)
EXTENDS Integers, Sequences, FiniteSets, TLC

VARIABLES
    longitude,   \* the caller's longitude array (degrees), shared across calls
    latitude,    \* the caller's latitude array (degrees)
    geo,         \* the last spatial call: its arguments and what it returned
    proj,        \* MaskProjector: the last remove/reinstate call
    tide,        \* doodson_x0_filter: the caller's array, the call and its result
    dist,        \* distribution estimators: the last call
    extr,        \* find_maxima: the last call
    tree_nan,    \* what the installed BallTree does with NaN points
    original     \* the coordinate arrays as the caller first held them

vars == <<longitude, latitude, geo, proj, tide, dist, extr, tree_nan, original>>

(***************************************************************************)
(* Bounds of the model.                                                    *)
(***************************************************************************)
NRows == 2          \* rows of the 2D coordinate grid
NCols == 3          \* columns of the 2D coordinate grid
MaxCentres == 2     \* centres (or query points) in one batch
FieldRows == 2      \* rows of the fields given to the mask projector
FieldCols == 3      \* columns of the fields given to the mask projector
MaxTimeLen == 40    \* longest filtered axis given to the Doodson filter
NSlices == 2        \* longest orthogonal axis given to the Doodson filter
MaxSupport == 3     \* longest support array x of a distribution
MaxSample == 3      \* longest sample of an empirical distribution
MaxSeries == 5      \* longest series given to find_maxima

(***************************************************************************)
(* Generic helpers.                                                        *)
(***************************************************************************)
\* IEEE NaN: one value outside every range of numbers the model uses.
NaN == 999 * 1000

IsNaN(v) == v = NaN

Idle == [op |-> "idle"]


RECURSIVE Prod(_)
Prod(s) == IF s = <<>> THEN 1 ELSE Head(s) * Prod(Tail(s))

Abs(n) == IF n < 0 THEN -n ELSE n

Range(s) == {s[i] : i \in DOMAIN s}

\* The elements of s at the positions where keep is TRUE, in order.
RECURSIVE SelectAt(_, _)
SelectAt(s, keep) ==
    IF s = <<>> THEN <<>>
    ELSE (IF Head(keep) THEN <<Head(s)>> ELSE <<>>) \o SelectAt(Tail(s), Tail(keep))

\* An array of the given shape over a row-major buffer.
Arr(shape, data) == [shape |-> shape, data |-> data]

\* ndarray.flatten(): a 1-D copy in C order.
Flatten(a) == Arr(<<Len(a.data)>>, a.data)

\* ndarray.squeeze(): the axes of length one are dropped.
Squeeze(a) ==
    Arr(SelectAt(a.shape, [i \in DOMAIN a.shape |-> a.shape[i] # 1]), a.data)

\* Element (r, c) of a 2-D array, by its C-order strides.
At2(a, r, c) == a.data[r * a.shape[2] + c + 1]

\* a[mask] = v for a boolean mask of a's shape: the masked cells are overwritten.
SetWhere(a, mask, v) ==
    Arr(a.shape, [i \in DOMAIN a.data |-> IF mask.data[i] THEN v ELSE a.data[i]])

(***************************************************************************)
(* SpatialIndex: subset_indices_by_distance and nearest_indices_2D.        *)
(***************************************************************************)
earth_radius == 6371

\* mask=None
None == Arr(<<>>, <<>>)

\* np.radians on the 60-degree lattice, in units of pi/3; NaN stays NaN.
Radians(deg) == IF IsNaN(deg) THEN NaN ELSE deg \div 60

\* np.vstack((a, b)).transpose() of two 1-D arrays: row i is <<a[i], b[i]>>.
VStackT(a, b) == [i \in DOMAIN a.data |-> <<a.data[i], b.data[i]>>]

\* np.radians of an n x 2 location array.
RadiansLocs(locs) == [i \in DOMAIN locs |-> <<Radians(locs[i][1]), Radians(locs[i][2])>>]

\* 4 sin^2(d/2) for d a multiple of pi/3.
Sin2Half4(d) == <<0, 1, 3, 4, 3, 1>>[(Abs(d) % 6) + 1]

\* 2 cos(lat) for lat in {-pi/3, 0, pi/3}.
Cos2(lat) == IF lat = 0 THEN 2 ELSE 1

\* 2 asin(sqrt(h/16)) in units of 1e-4 radian, for h = 0..16.
ArcTable ==
    <<0, 5054, 7227, 8957, 10472, 11864, 13181, 14455, 15708,
      16961, 18235, 19552, 20944, 22459, 24189, 26362, 31416>>

\* The haversine metric of sklearn on rows <<lat, lon>> in radians:
\* 2 asin(sqrt(sin^2(dlat/2) + cos(lat1) cos(lat2) sin^2(dlon/2))).
\* A NaN coordinate gives NaN.
HaversineMetric(p, q) ==
    IF IsNaN(p[1]) \/ IsNaN(p[2]) \/ IsNaN(q[1]) \/ IsNaN(q[2]) THEN NaN
    ELSE ArcTable[4 * Sin2Half4(q[1] - p[1])
                  + Cos2(p[1]) * Cos2(q[1]) * Sin2Half4(q[2] - p[2]) + 1]

\* x <= y in IEEE arithmetic: false when either side is NaN.
LeqF(x, y) == ~IsNaN(x) /\ ~IsNaN(y) /\ x <= y

HasNaN(locs) == \E i \in DOMAIN locs : IsNaN(locs[i][1]) \/ IsNaN(locs[i][2])

\* nb.BallTree(locs, metric='haversine'): a build that validates its input
\* refuses NaN; one that does not keeps the NaN points in the tree.
TreeBuilds(locs) == ~(HasNaN(locs) /\ tree_nan = "reject")

Reverse(s) == [i \in DOMAIN s |-> s[Len(s) + 1 - i]]

\* tree.query_radius(centre, r): for each centre, the 0-based positions of the
\* points whose distance to it is <= r.  The order within one answer is the
\* tree's: ascending and descending stand for it.
QueryRadius(locs, centre, r, order) ==
    [k \in DOMAIN centre |->
        LET within(i) == LeqF(HaversineMetric(locs[i + 1], centre[k]), r)
            ind == SelectSeq([i \in DOMAIN locs |-> i - 1], within)
        IN  Arr(<<Len(ind)>>, IF order = "asc" THEN ind ELSE Reverse(ind))]

\* A variant of UnravelIndex that divides by the number of rows.
UnravelIndexByRows(ind, shape) ==
    <<Arr(ind.shape, [i \in DOMAIN ind.data |-> ind.data[i] \div shape[1]]),
      Arr(ind.shape, [i \in DOMAIN ind.data |-> ind.data[i] % shape[1]])>>

\* np.unravel_index(ind, shape) for a 2-D shape: <<rows, columns>>.
UnravelIndex(ind, shape) ==
    <<Arr(ind.shape, [i \in DOMAIN ind.data |-> ind.data[i] \div shape[2]]),
      Arr(ind.shape, [i \in DOMAIN ind.data |-> ind.data[i] % shape[2]])>>

\* radius/earth_radius, in units of 1e-4 radian.
RadiusRad(radius) == (radius * 10000) \div earth_radius

\* Lines 34-35 and 53-57: the centre array handed to the tree.  A scalar pair
\* gives one row.  A one-element vector pair is nested once more and has three
\* dimensions, which the tree refuses.
CentreRows(centre_lat, centre_lon) == RadiansLocs(VStackT(centre_lat, centre_lon))

CentreAccepted(centre_lat) == centre_lat.shape = <<>> \/ Len(centre_lat.data) > 1

\* The coordinate arrays after lines 39-46, before flattening.
Masked(a, mask) == IF mask = None THEN a ELSE SetWhere(a, mask, NaN)

\* Lines 48-50.
TreeLocs(lon, lat) == RadiansLocs(VStackT(Flatten(lat), Flatten(lon)))

\* Lines 63-73: what the call returns for the tree's answer ind_1d.
RadiusResult(ind_1d, original_shape) ==
    IF Len(original_shape) = 1
    THEN [kind |-> "ind_1d", ind_1d |-> ind_1d, ind_x |-> <<>>, ind_y |-> <<>>]
    ELSE [kind |-> "ind_x, ind_y", ind_1d |-> <<>>,
          ind_x |-> [ii \in DOMAIN ind_1d |-> Squeeze(UnravelIndex(ind_1d[ii], original_shape)[2])],
          ind_y |-> [ii \in DOMAIN ind_1d |-> Squeeze(UnravelIndex(ind_1d[ii], original_shape)[1])]]

Raised(what) == [kind |-> what, ind_1d |-> <<>>, ind_x |-> <<>>, ind_y |-> <<>>]

\* A variant of ReturnedTuple that hands back the rows first.
ReturnedTupleRowsFirst(out) == <<out.ind_y, out.ind_x>>

\* Lines 73 and 218, `return ind_x, ind_y`: the tuple the caller receives.
ReturnedTuple(out) == <<out.ind_x, out.ind_y>>

\* Lines 48-61 of subset_indices_by_distance on the arrays lon and lat: the
\* answer of the tree, or no answer when the tree refuses its input.
RadiusTree(lon, lat, centre_lon, centre_lat, radius, mask, order) ==
    LET locs == TreeLocs(Masked(lon, mask), Masked(lat, mask))
        centre == CentreRows(centre_lat, centre_lon)
    IN  IF ~TreeBuilds(locs) \/ ~CentreAccepted(centre_lat) THEN <<>>
        ELSE QueryRadius(locs, centre, RadiusRad(radius), order)

\* Lines 60-73: the ValueError of the tree reaches the caller, an answer is
\* reshaped and returned.
RadiusReturn(ind_1d, original_shape) ==
    IF ind_1d = <<>> THEN Raised("ValueError") ELSE RadiusResult(ind_1d, original_shape)

\* What subset_indices_by_distance hands back for the arrays lon and lat.
RadiusOutcome(lon, lat, centre_lon, centre_lat, radius, mask, order) ==
    RadiusReturn(RadiusTree(lon, lat, centre_lon, centre_lat, radius, mask, order),
                 lon.shape)

\* subset_indices_by_distance(longitude, latitude, centre_lon, centre_lat,
\* radius, mask) on the caller's arrays: lines 43-44 write the NaN into them.
subset_indices_by_distance(centre_lon, centre_lat, radius, mask, order) ==
    /\ longitude' = Masked(longitude, mask)
    /\ latitude' = Masked(latitude, mask)
    /\ LET ind_1d == RadiusTree(longitude, latitude, centre_lon, centre_lat,
                                radius, mask, order)
       IN  geo' = [op |-> "radius", lon0 |-> longitude, lat0 |-> latitude,
                   qlon |-> centre_lon, qlat |-> centre_lat,
                   radius |-> radius, mask |-> mask,
                   tree |-> ind_1d,
                   out |-> RadiusReturn(ind_1d, longitude.shape)]
    /\ UNCHANGED <<proj, tide, dist, extr, tree_nan, original>>

\* tree.query(new_loc, k=1): for each query row, the position of a nearest
\* point, as an (n, 1) array.  Distances are compared as IEEE numbers, so a NaN
\* point is never nearer than a real one.  Among equidistant points the choice
\* is the tree's: the first and the last of them stand for it.  With no real
\* point at all the first or last position comes back.
QueryNearest(locs, new_loc, order) ==
    Arr(<<Len(new_loc), 1>>,
        [k \in DOMAIN new_loc |->
            LET d(i) == HaversineMetric(locs[i], new_loc[k])
                real == {i \in DOMAIN locs : ~IsNaN(d(i))}
                best == IF real = {} THEN DOMAIN locs
                        ELSE {j \in real : \A m \in real : d(j) <= d(m)}
            IN  IF order = "asc"
                THEN (CHOOSE j \in best : \A m \in best : j <= m) - 1
                ELSE (CHOOSE j \in best : \A m \in best : j >= m) - 1])

\* A variant of NearestResult that takes the columns for ind_y and the rows
\* for ind_x.
NearestResultTransposed(ind_1d, original_shape) ==
    IF Len(original_shape) # 2 THEN Raised("ValueError")
    ELSE [kind |-> "ind_x, ind_y", ind_1d |-> <<>>,
          ind_x |-> Squeeze(UnravelIndex(ind_1d, original_shape)[1]),
          ind_y |-> Squeeze(UnravelIndex(ind_1d, original_shape)[2])]

\* Lines 214-218: the pair returned for the tree's answer ind_1d, an
\* (n, 1) array.
NearestResult(ind_1d, original_shape) ==
    IF Len(original_shape) # 2 THEN Raised("ValueError")
    ELSE [kind |-> "ind_x, ind_y", ind_1d |-> <<>>,
          ind_x |-> Squeeze(UnravelIndex(ind_1d, original_shape)[2]),
          ind_y |-> Squeeze(UnravelIndex(ind_1d, original_shape)[1])]

\* Lines 203-212 of nearest_indices_2D on the arrays mod_lon and mod_lat: the
\* answer of the tree, or no answer when the tree refuses its input.
NearestTree(mod_lon, mod_lat, new_lon, new_lat, mask, order) ==
    LET mod_loc == TreeLocs(Masked(mod_lon, mask), Masked(mod_lat, mask))
        new_loc == CentreRows(new_lat, new_lon)
    IN  IF ~TreeBuilds(mod_loc) THEN Arr(<<0, 1>>, <<>>)
        ELSE QueryNearest(mod_loc, new_loc, order)

\* Lines 211-218: the ValueError of the tree reaches the caller, an answer is
\* reshaped and returned.
NearestReturn(ind_1d, original_shape) ==
    IF ind_1d.data = <<>> THEN Raised("ValueError")
    ELSE NearestResult(ind_1d, original_shape)

\* What nearest_indices_2D hands back for the arrays mod_lon and mod_lat.
NearestOutcome(mod_lon, mod_lat, new_lon, new_lat, mask, order) ==
    NearestReturn(NearestTree(mod_lon, mod_lat, new_lon, new_lat, mask, order),
                  mod_lon.shape)

\* nearest_indices_2D(mod_lon, mod_lat, new_lon, new_lat, mask) on the
\* caller's arrays; np.array copies them, so the masking stays local.
nearest_indices_2D(new_lon, new_lat, mask, order) ==
    /\ LET ind_1d == NearestTree(longitude, latitude, new_lon, new_lat, mask, order)
       IN  geo' = [op |-> "nearest", lon0 |-> longitude, lat0 |-> latitude,
                   qlon |-> new_lon, qlat |-> new_lat,
                   radius |-> 0, mask |-> mask,
                   tree |-> ind_1d,
                   out |-> NearestReturn(ind_1d, longitude.shape)]
    /\ UNCHANGED <<longitude, latitude, proj, tide, dist, extr, tree_nan, original>>

(***************************************************************************)
(* The inputs of the spatial calls.                                        *)
(***************************************************************************)
RowOf(i, shape) == IF Len(shape) = 2 THEN (i - 1) \div shape[2] ELSE i - 1
ColOf(i, shape) == IF Len(shape) = 2 THEN (i - 1) % shape[2] ELSE i - 1

\* Coordinate grids: latitude steps by row, longitude by column, the rows
\* shifted against each other by skew columns.
GridShapes == {<<NRows, NCols>>, <<NCols>>}
LatGrid(shape) ==
    Arr(shape, [i \in 1..Prod(shape) |-> 60 * ((RowOf(i, shape) % 3) - 1)])
LonGrid(shape, skew) ==
    Arr(shape, [i \in 1..Prod(shape) |-> 60 * (ColOf(i, shape) + skew * RowOf(i, shape))])

\* Boolean masks of a shape: none, True on a few cells, or True everywhere.
BoolArr(shape, S) == Arr(shape, [i \in 1..Prod(shape) |-> i \in S])
Masks(shape) ==
    {None} \cup {BoolArr(shape, S) : S \in {{1}, {2, Prod(shape)}, 1..Prod(shape)}}

\* Centres and query points <<lat, lon>>, as a scalar pair or as vectors.
CentrePoints == <<<<0, 0>>, <<60, 60>>, <<-60, 180>>>>
Scalar(v) == Arr(<<>>, <<v>>)
Vector(s) == Arr(<<Len(s)>>, s)
CentreBatches ==
    {[lat |-> Scalar(CentrePoints[k][1]), lon |-> Scalar(CentrePoints[k][2])] :
        k \in 1..2}
    \cup
    {[lat |-> Vector([i \in 1..n |-> CentrePoints[((n + i) % 3) + 1][1]]),
      lon |-> Vector([i \in 1..n |-> CentrePoints[((n + i) % 3) + 1][2]])] :
        n \in 1..MaxCentres}

Radii == {1, 6672}

InitSpatial ==
    /\ \E shape \in GridShapes, skew \in 0..1 :
          /\ Len(shape) = 1 => skew = 0
          /\ longitude = LonGrid(shape, skew)
          /\ latitude = LatGrid(shape)
    /\ original = [longitude |-> longitude, latitude |-> latitude]
    /\ tree_nan \in {"reject", "keep"}
    /\ geo = Idle
    /\ proj = Idle /\ tide = Idle /\ dist = Idle /\ extr = Idle

RadiusQuery ==
    \E c \in CentreBatches, radius \in Radii, mask \in Masks(longitude.shape),
       order \in {"asc", "desc"} :
        subset_indices_by_distance(c.lon, c.lat, radius, mask, order)

NearestQuery ==
    \E c \in CentreBatches, mask \in Masks(longitude.shape), order \in {"asc", "desc"} :
        nearest_indices_2D(c.lon, c.lat, mask, order)

NextSpatial == RadiusQuery \/ NearestQuery

SpecSpatial == InitSpatial /\ [][NextSpatial]_vars

(***************************************************************************)
(* Properties of the spatial queries.                                      *)
(***************************************************************************)
\* The great-circle distance, in units of 1e-4 km on a sphere of radius
\* earth_radius km, between cell (r, c) of the grid the last call received and
\* its k-th centre or query point.
CellDistance(r, c, k) ==
    earth_radius *
        HaversineMetric(<<Radians(At2(geo.lat0, r, c)), Radians(At2(geo.lon0, r, c))>>,
                        <<Radians(geo.qlat.data[k]), Radians(geo.qlon.data[k])>>)

\* The same for position i of a 1-D track.
PointDistance(i, k) ==
    earth_radius *
        HaversineMetric(<<Radians(geo.lat0.data[i + 1]), Radians(geo.lon0.data[i + 1])>>,
                        <<Radians(geo.qlat.data[k]), Radians(geo.qlon.data[k])>>)

\* The last call received a grid of points: no coordinate is NaN.
GridIsReal ==
    \A i \in DOMAIN geo.lon0.data : ~IsNaN(geo.lon0.data[i]) /\ ~IsNaN(geo.lat0.data[i])

MaskedCell(r, c) == geo.mask # None /\ At2(geo.mask, r, c)
MaskedPoint(i) == geo.mask # None /\ geo.mask.data[i + 1]

\* The cells <<row, column>> returned for centre k of a radius query on a 2-D
\* grid: ind_y holds the rows and ind_x the columns.
ReturnedCells(k) ==
    {<<geo.out.ind_y[k].data[j], geo.out.ind_x[k].data[j]>> :
        j \in DOMAIN geo.out.ind_x[k].data}

GridRows == 0..(geo.lon0.shape[1] - 1)
GridCols == 0..(geo.lon0.shape[2] - 1)

RadiusReturned2D == geo.op = "radius" /\ geo.out.kind = "ind_x, ind_y"
RadiusReturned1D == geo.op = "radius" /\ geo.out.kind = "ind_1d"

\* C1: a radius query that returns, on a grid of real points with radius
\* R > 0, is sound and complete: for every centre, every returned cell lies in
\* the grid at a haversine distance <= R km (on the sphere of radius 6371 km
\* the function uses), and every cell that is neither returned nor masked lies
\* at a distance > R.  The same for the positions of a 1-D track.
RadiusSoundAndComplete ==
    /\ (RadiusReturned2D /\ GridIsReal /\ geo.radius > 0) =>
          \A k \in DOMAIN geo.out.ind_x :
              /\ Len(geo.out.ind_x[k].data) = Len(geo.out.ind_y[k].data)
              /\ \A cell \in ReturnedCells(k) :
                    /\ cell[1] \in GridRows /\ cell[2] \in GridCols
                    /\ CellDistance(cell[1], cell[2], k) <= geo.radius * 10000
              /\ \A r \in GridRows, c \in GridCols :
                    (<<r, c>> \notin ReturnedCells(k) /\ ~MaskedCell(r, c)) =>
                        CellDistance(r, c, k) > geo.radius * 10000
    /\ (RadiusReturned1D /\ GridIsReal /\ geo.radius > 0) =>
          \A k \in DOMAIN geo.out.ind_1d :
              /\ \A i \in Range(geo.out.ind_1d[k].data) :
                    /\ i \in 0..(Len(geo.lon0.data) - 1)
                    /\ PointDistance(i, k) <= geo.radius * 10000
              /\ \A i \in 0..(Len(geo.lon0.data) - 1) :
                    (i \notin Range(geo.out.ind_1d[k].data) /\ ~MaskedPoint(i)) =>
                        PointDistance(i, k) > geo.radius * 10000

\* C1 witness: a masked two-centre radius query on a 2-D grid returned; for
\* its first centre some cell came back, and some unmasked cell did not.
RadiusSoundAndCompleteWitness ==
    /\ RadiusReturned2D /\ GridIsReal /\ geo.radius > 0
    /\ geo.mask # None /\ (\E i \in DOMAIN geo.mask.data : geo.mask.data[i])
    /\ Len(geo.out.ind_x) = 2
    /\ ReturnedCells(1) # {}
    /\ \E r \in GridRows, c \in GridCols :
          <<r, c>> \notin ReturnedCells(1) /\ ~MaskedCell(r, c)

NearestReturned == geo.op = "nearest" /\ geo.out.kind = "ind_x, ind_y"

\* The cell <<row, column>> returned for query point k of a nearest query.
NearestCell(k) == <<geo.out.ind_y.data[k], geo.out.ind_x.data[k]>>

\* C2: a nearest query that returns, on a grid of real points, is optimal: for
\* every query point the returned cell lies in the grid, and its haversine
\* distance to the query point is <= that of every unmasked cell.
NearestIsOptimal ==
    (NearestReturned /\ GridIsReal
        /\ \E r \in GridRows, c \in GridCols : ~MaskedCell(r, c)) =>
        /\ Len(geo.out.ind_x.data) = Len(geo.qlat.data)
        /\ Len(geo.out.ind_y.data) = Len(geo.qlat.data)
        /\ \A k \in DOMAIN geo.qlat.data :
              /\ NearestCell(k)[1] \in GridRows /\ NearestCell(k)[2] \in GridCols
              /\ \A r \in GridRows, c \in GridCols :
                    ~MaskedCell(r, c) =>
                        CellDistance(NearestCell(k)[1], NearestCell(k)[2], k)
                            <= CellDistance(r, c, k)

\* C2 witness: a masked nearest query for two points returned, and the nearest
\* cell of the first point is not the first cell of the grid and is strictly
\* nearer than some other unmasked cell.
NearestIsOptimalWitness ==
    /\ NearestReturned /\ GridIsReal
    /\ geo.mask # None /\ (\E i \in DOMAIN geo.mask.data : geo.mask.data[i])
    /\ Len(geo.qlat.data) = 2
    /\ NearestCell(1) # <<0, 0>>
    /\ \E r \in GridRows, c \in GridCols :
          /\ ~MaskedCell(r, c)
          /\ CellDistance(NearestCell(1)[1], NearestCell(1)[2], 1) < CellDistance(r, c, 1)

\* C13 (as claimed): when a mask is supplied to a radius query or to a nearest
\* query, no index the call returns, for any centre or query point, refers to
\* a cell whose mask value is True.
MaskedCellsExcluded ==
    /\ (RadiusReturned2D /\ geo.mask # None) =>
          \A k \in DOMAIN geo.out.ind_x :
              \A cell \in ReturnedCells(k) : ~MaskedCell(cell[1], cell[2])
    /\ (RadiusReturned1D /\ geo.mask # None) =>
          \A k \in DOMAIN geo.out.ind_1d :
              \A i \in Range(geo.out.ind_1d[k].data) : ~MaskedPoint(i)
    /\ (NearestReturned /\ geo.mask # None) =>
          \A k \in DOMAIN geo.qlat.data :
              ~MaskedCell(NearestCell(k)[1], NearestCell(k)[2])

\* C14 (as claimed): after a radius query returns, with or without a mask, the
\* caller's longitude and latitude arrays hold exactly the values they held
\* when the call was made.
RadiusLeavesCallerArrays ==
    (geo.op = "radius" /\ geo.out.kind # "ValueError") =>
        (longitude = geo.lon0 /\ latitude = geo.lat0)

\* The number of centres or query points of the last call.
NumPoints == Len(geo.qlat.data)

\* For a radius query on a 2-D grid that returned the pair <<first, second>>:
\* both hold one array per centre, in centre order; for each centre the two
\* arrays have the same shape, and at every position rows holds a row of the
\* grid, cols a column, and row * C + column is the flat index the tree gave at
\* that position for that centre.
RadiusFrame(rows, cols) ==
    /\ Len(rows) = NumPoints /\ Len(cols) = NumPoints
    /\ \A k \in 1..NumPoints :
          /\ rows[k].shape = cols[k].shape
          /\ DOMAIN rows[k].data = DOMAIN geo.tree[k].data
          /\ DOMAIN cols[k].data = DOMAIN geo.tree[k].data
          /\ \A j \in DOMAIN geo.tree[k].data :
                /\ rows[k].data[j] \in GridRows
                /\ cols[k].data[j] \in GridCols
                /\ rows[k].data[j] * geo.lon0.shape[2] + cols[k].data[j]
                      = geo.tree[k].data[j]

\* C15 (as claimed): a radius query on a grid of shape (R, C) returns the pair
\* (row-indices, column-indices), row indices first, with the frame above.
RadiusFrameRowsFirst ==
    RadiusReturned2D =>
        RadiusFrame(ReturnedTuple(geo.out)[1], ReturnedTuple(geo.out)[2])

\* C15 (amended): a radius query on a grid of shape (R, C) returns the pair
\* (column-indices, row-indices), the column indices ind_x first; each holds one
\* array per centre in centre order; for each centre the two arrays have the
\* same shape, every row is in 0..R-1 and every column in 0..C-1, and
\* row * C + column is exactly the flat index the tree returned at that
\* position for that centre.
RadiusFrameColumnsFirst ==
    RadiusReturned2D =>
        RadiusFrame(ReturnedTuple(geo.out)[2], ReturnedTuple(geo.out)[1])

\* C15 witness: a radius query for two centres on a 2-D grid returned; the
\* first centre got at least two cells, one of them with column 0 in row 1,
\* and the second centre got a cell.
RadiusFrameColumnsFirstWitness ==
    /\ RadiusReturned2D /\ NumPoints = 2
    /\ Len(geo.tree[1].data) >= 2 /\ Len(geo.tree[2].data) >= 1
    /\ \E j \in DOMAIN geo.tree[1].data :
          /\ ReturnedTuple(geo.out)[1][1].data[j] = 0
          /\ ReturnedTuple(geo.out)[2][1].data[j] = 1

\* For a nearest query that returned the pair <<first, second>>: both hold
\* exactly one entry per query point, in query order; entry k of rows is a row
\* of the grid, entry k of cols a column, and row * C + column is the flat
\* index the tree gave for query point k; with one query point each is a
\* scalar (an array of no dimension).
NearestFrame(rows, cols) ==
    /\ Len(rows.data) = NumPoints /\ Len(cols.data) = NumPoints
    /\ rows.shape = (IF NumPoints = 1 THEN <<>> ELSE <<NumPoints>>)
    /\ cols.shape = rows.shape
    /\ \A k \in 1..NumPoints :
          /\ rows.data[k] \in GridRows
          /\ cols.data[k] \in GridCols
          /\ rows.data[k] * geo.lon0.shape[2] + cols.data[k] = geo.tree.data[k]

\* C16 (as claimed): a nearest query returns (row_indices, col_indices), row
\* indices first, with the frame above.
NearestFrameRowsFirst ==
    NearestReturned =>
        NearestFrame(ReturnedTuple(geo.out)[1], ReturnedTuple(geo.out)[2])

\* C16 (amended): a nearest query returns (col_indices, row_indices), the
\* column indices ind_x first, each with exactly one entry per query point in
\* query order; entry k is the in-bounds column, respectively row, obtained by
\* unravelling the flat index of the cell the tree found for query point k
\* with the original grid shape, and each is a scalar when exactly one query
\* point is supplied.
NearestFrameColumnsFirst ==
    NearestReturned =>
        NearestFrame(ReturnedTuple(geo.out)[2], ReturnedTuple(geo.out)[1])

\* C16 witness: a nearest query for two points returned, the first of them
\* nearest to the cell of row 1 and column 0.
NearestFrameColumnsFirstWitness ==
    /\ NearestReturned /\ GridIsReal /\ NumPoints = 2
    /\ ReturnedTuple(geo.out)[1].shape = <<2>>
    /\ ReturnedTuple(geo.out)[1].data[1] = 0
    /\ ReturnedTuple(geo.out)[2].data[1] = 1

\* The cells (2-D grid) or positions (1-D track) a radius query returned for
\* its first centre.
FirstCentreCells(out) ==
    IF out.kind = "ind_1d" THEN Range(out.ind_1d[1].data)
    ELSE {<<out.ind_y[1].data[j], out.ind_x[1].data[j]>> : j \in DOMAIN out.ind_x[1].data}

\* What the last radius call returns when its one centre is given as a scalar.
ScalarForm ==
    RadiusOutcome(geo.lon0, geo.lat0, Scalar(geo.qlon.data[1]), Scalar(geo.qlat.data[1]),
                  geo.radius, geo.mask, "asc")

\* C17 (as claimed): a radius query given exactly one centre, as a scalar or
\* as a one-element vector, succeeds (wherever the scalar form does) and returns
\* the same set of cells in both forms.
SingleCentreEitherForm ==
    (geo.op = "radius" /\ NumPoints = 1 /\ ScalarForm.kind # "ValueError") =>
        /\ geo.out.kind = ScalarForm.kind
        /\ FirstCentreCells(geo.out) = FirstCentreCells(ScalarForm)

\* What the last call returns when it is made alone on the arrays as the
\* caller first held them, for one order of the tree.
MadeAlone(order) ==
    IF geo.op = "radius"
    THEN RadiusOutcome(original.longitude, original.latitude, geo.qlon, geo.qlat,
                       geo.radius, geo.mask, order)
    ELSE NearestOutcome(original.longitude, original.latitude, geo.qlon, geo.qlat,
                        geo.mask, order)

\* C20 (as claimed): in any sequence of radius and nearest queries over the
\* same caller-held coordinate arrays, with any mix of masks, the result of
\* each call equals the result of the same call made alone on the original
\* arrays.
CallsAreIndependent ==
    geo.op \in {"radius", "nearest"} =>
        \E order \in {"asc", "desc"} : geo.out = MadeAlone(order)

(***************************************************************************)
(* GeodesicDistance: calculate_haversine_distance.  Distances are in units *)
(* of 1e-4 km.                                                             *)
(***************************************************************************)
MaxPoints == 2      \* longest location vector given to the distance function

\* The radius 6371.007176 km of line 126: its whole kilometres and the rest in
\* millionths of a kilometre.
HaversineRadiusKm == 6371
HaversineRadiusMicroKm == 7176

\* Element i of an array under broadcasting: a 0-d array gives its one value.
BroadcastAt(a, i) == IF a.shape = <<>> THEN a.data[1] ELSE a.data[i]

\* The shape two broadcast operands give.
BroadcastShape(a, b) == IF a.shape = <<>> THEN b.shape ELSE a.shape

\* A variant of HaversinePair that adds the latitudes where it should subtract.
HaversinePairSumLat(lon1, lat1, lon2, lat2) ==
    IF IsNaN(lon1) \/ IsNaN(lat1) \/ IsNaN(lon2) \/ IsNaN(lat2) THEN NaN
    ELSE LET dlat == Radians(lat2) + Radians(lat1)
             dlon == Radians(lon2) - Radians(lon1)
             distance == 4 * Sin2Half4(dlat)
                         + Cos2(Radians(lat1)) * Cos2(Radians(lat2)) * Sin2Half4(dlon)
             arc == ArcTable[distance + 1]
         IN  HaversineRadiusKm * arc + (HaversineRadiusMicroKm * arc) \div 1000000

\* Lines 114-126 for one pair of locations in degrees: dlat and dlon are the
\* differences (halved inside Sin2Half4), distance is 16 times the haversine
\* term, arc is 2 asin(sqrt(term)).
HaversinePair(lon1, lat1, lon2, lat2) ==
    IF IsNaN(lon1) \/ IsNaN(lat1) \/ IsNaN(lon2) \/ IsNaN(lat2) THEN NaN
    ELSE LET dlat == Radians(lat2) - Radians(lat1)
             dlon == Radians(lon2) - Radians(lon1)
             distance == 4 * Sin2Half4(dlat)
                         + Cos2(Radians(lat1)) * Cos2(Radians(lat2)) * Sin2Half4(dlon)
             arc == ArcTable[distance + 1]
         IN  HaversineRadiusKm * arc + (HaversineRadiusMicroKm * arc) \div 1000000

\* calculate_haversine_distance(lon1, lat1, lon2, lat2) on scalars, on vectors
\* of equal length, or on one scalar side and one vector side.
calculate_haversine_distance(lon1, lat1, lon2, lat2) ==
    LET shape == BroadcastShape(lon1, lon2)
    IN  Arr(shape, [i \in 1..Prod(shape) |->
                     HaversinePair(BroadcastAt(lon1, i), BroadcastAt(lat1, i),
                                   BroadcastAt(lon2, i), BroadcastAt(lat2, i))])

\* Locations <<lat, lon>> on the lattice, as one scalar pair or as vectors.
HavPoints == <<<<0, 0>>, <<60, 60>>, <<-60, 180>>, <<0, 240>>>>
PointSeqs(n) == [1..n -> DOMAIN HavPoints]
Locations ==
    {[lat |-> Scalar(HavPoints[k][1]), lon |-> Scalar(HavPoints[k][2])] :
        k \in DOMAIN HavPoints}
    \cup
    UNION {{[lat |-> Vector([i \in 1..n |-> HavPoints[f[i]][1]]),
             lon |-> Vector([i \in 1..n |-> HavPoints[f[i]][2]])] : f \in PointSeqs(n)} :
           n \in 1..MaxPoints}

\* The two sides can be combined: equal shapes, or one side a scalar.
Compatible(a, b) == a.lat.shape = b.lat.shape \/ a.lat.shape = <<>> \/ b.lat.shape = <<>>

\* No distance returned yet.
NoDistance == Arr(<<0>>, <<>>)

InitGeodesic ==
    /\ \E a \in Locations, b \in Locations :
          /\ Compatible(a, b)
          /\ geo = [op |-> "args", lon1 |-> a.lon, lat1 |-> a.lat,
                    lon2 |-> b.lon, lat2 |-> b.lat, out |-> NoDistance]
    /\ longitude = None /\ latitude = None /\ tree_nan = "keep" /\ original = Idle
    /\ proj = Idle /\ tide = Idle /\ dist = Idle /\ extr = Idle

Haversine ==
    /\ geo.op = "args"
    /\ geo' = [geo EXCEPT !.op = "haversine",
                          !.out = calculate_haversine_distance(geo.lon1, geo.lat1,
                                                               geo.lon2, geo.lat2)]
    /\ UNCHANGED <<longitude, latitude, proj, tide, dist, extr, tree_nan, original>>

NextGeodesic == Haversine

SpecGeodesic == InitGeodesic /\ [][NextGeodesic]_vars

\* C18: the distance is symmetric and zero on the diagonal: what a call
\* returned for (a, b) is what the call with the two sides exchanged returns,
\* element by element, and when both sides are the same locations every
\* distance returned is 0.
DistanceSymmetryIdentity ==
    geo.op = "haversine" =>
        /\ geo.out = calculate_haversine_distance(geo.lon2, geo.lat2, geo.lon1, geo.lat1)
        /\ (geo.lon1 = geo.lon2 /\ geo.lat1 = geo.lat2) =>
               \A i \in DOMAIN geo.out.data : geo.out.data[i] = 0

\* C18 witness: a call on a scalar location and a vector of two locations at
\* different latitudes returned two different non-zero distances.
DistanceSymmetryIdentityWitness ==
    /\ geo.op = "haversine"
    /\ geo.lat1.shape = <<>> /\ geo.lat2.shape = <<2>>
    /\ geo.lat1.data[1] = 0 /\ geo.lat2.data = <<60, -60>>
    /\ geo.out.data[1] # geo.out.data[2]
    /\ geo.out.data[1] > 0 /\ geo.out.data[2] > 0

(***************************************************************************)
(* MaskProjector: remove_indices_by_mask and reinstate_indices_by_mask.    *)
(***************************************************************************)
Not(keep) == [i \in DOMAIN keep |-> ~keep[i]]

CountTrue(keep) == Cardinality({i \in DOMAIN keep : keep[i]})

Returned(arr) == [kind |-> "ok", arr |-> arr]
Failed(what) == [kind |-> what, arr |-> Arr(<<0>>, <<>>)]

\* a[keep] for a 1-D array and a 1-D boolean index: the index must have a's
\* length.
BoolIndex(a, keep) ==
    IF Len(a) # Len(keep) THEN Failed("IndexError")
    ELSE Returned(Arr(<<CountTrue(keep)>>, SelectAt(a, keep)))

\* The position among the TRUE entries of keep that entry i holds.
RankIn(keep, i) == Cardinality({j \in 1..i : keep[j]})

\* a[keep] = values for 1-D a: as many values as selected cells are stored in
\* order, a single value is broadcast to every selected cell, and any other
\* number of values is refused.
BoolAssign(a, keep, values) ==
    IF Len(values) = CountTrue(keep)
    THEN Returned(Arr(<<Len(a)>>,
             [i \in DOMAIN a |-> IF keep[i] THEN values[RankIn(keep, i)] ELSE a[i]]))
    ELSE IF Len(values) = 1
    THEN Returned(Arr(<<Len(a)>>, [i \in DOMAIN a |-> IF keep[i] THEN values[1] ELSE a[i]]))
    ELSE Failed("ValueError")

\* remove_indices_by_mask(A, mask)
remove_indices_by_mask(A, mask) == BoolIndex(Flatten(A).data, Not(Flatten(mask).data))

\* np.zeros(shape) for a 1-D shape.
Zeros(n) == [i \in 1..n |-> 0]

\* A variant of reinstate_indices_by_mask that leaves the masked cells zero.
reinstate_without_fill(array_removed, mask, fill_value) ==
    LET flat == Flatten(mask).data
        A == BoolAssign(Zeros(Len(flat)), Not(flat), array_removed.data)
    IN  IF A.kind # "ok" THEN A ELSE Returned(Arr(mask.shape, A.arr.data))

\* reinstate_indices_by_mask(array_removed, mask, fill_value)
reinstate_indices_by_mask(array_removed, mask, fill_value) ==
    LET original_shape == mask.shape
        flat == Flatten(mask).data
        A == BoolAssign(Zeros(Len(flat)), Not(flat), array_removed.data)
    IN  IF A.kind # "ok" THEN A
        ELSE Returned(Arr(original_shape,
                 [i \in DOMAIN flat |-> IF flat[i] THEN fill_value ELSE A.arr.data[i]]))

(***************************************************************************)
(* The inputs of the mask projector, and its calls.                        *)
(***************************************************************************)
FieldShapes == {<<FieldRows, FieldCols>>, <<FieldCols, FieldRows>>}

\* Fields: every cell distinct, or a few repeated values with a sign change.
Fields(shape) ==
    {Arr(shape, [i \in 1..Prod(shape) |-> 10 * i + 1]),
     Arr(shape, [i \in 1..Prod(shape) |-> (i % 3) - 1])}

BoolArrays(shape) == {BoolArr(shape, S) : S \in SUBSET (1..Prod(shape))}

FillValues == {NaN, -9}

\* 1-D value arrays of every length up to one more than the cells of a field.
ValueArrays == {Vector([i \in 1..n |-> 100 + i]) : n \in 0..(FieldRows * FieldCols + 1)}

InitMask ==
    /\ \E sa \in FieldShapes, sm \in FieldShapes :
       \E A \in Fields(sa), mask \in BoolArrays(sm) :
          /\ (sa # sm) => (A.data[1] = 11 /\ CountTrue(mask.data) <= 1)
          /\ proj = [op |-> "args", A |-> A, mask |-> mask,
                     values |-> Arr(<<0>>, <<>>), fill_value |-> 0, out |-> Failed("none")]
    /\ longitude = None /\ latitude = None /\ tree_nan = "keep" /\ original = Idle
    /\ geo = Idle /\ tide = Idle /\ dist = Idle /\ extr = Idle

\* compress: remove_indices_by_mask(A, mask)
Remove ==
    /\ proj.op = "args"
    /\ proj' = [proj EXCEPT !.op = "remove",
                            !.out = remove_indices_by_mask(proj.A, proj.mask)]
    /\ UNCHANGED <<longitude, latitude, geo, tide, dist, extr, tree_nan, original>>

\* expand what compress returned, under the same mask.
ReinstateRemoved ==
    /\ proj.op = "remove" /\ proj.out.kind = "ok"
    /\ \E fill_value \in FillValues :
          proj' = [proj EXCEPT !.op = "roundtrip",
                               !.values = proj.out.arr,
                               !.fill_value = fill_value,
                               !.out = reinstate_indices_by_mask(proj.out.arr, proj.mask,
                                                                 fill_value)]
    /\ UNCHANGED <<longitude, latitude, geo, tide, dist, extr, tree_nan, original>>

\* expand any 1-D array of values under the mask.
Reinstate ==
    /\ proj.op = "args"
    /\ \E values \in ValueArrays, fill_value \in {-9} :
          proj' = [proj EXCEPT !.op = "reinstate",
                               !.values = values,
                               !.fill_value = fill_value,
                               !.out = reinstate_indices_by_mask(values, proj.mask,
                                                                 fill_value)]
    /\ UNCHANGED <<longitude, latitude, geo, tide, dist, extr, tree_nan, original>>

NextMask == Remove \/ ReinstateRemoved \/ Reinstate

SpecMask == InitMask /\ [][NextMask]_vars

(***************************************************************************)
(* Properties of the mask projector.                                       *)
(***************************************************************************)
FieldCells == {<<r, c>> : r \in 0..(proj.mask.shape[1] - 1), c \in 0..(proj.mask.shape[2] - 1)}

\* C3: the round trip reinstate(remove(field, mask), mask, fill_value=X) of a
\* field and a mask of the same shape returns an array of the mask's shape that
\* equals the field at every cell where the mask is False and X where it is True.
MaskRoundTrip ==
    (proj.op = "roundtrip" /\ proj.A.shape = proj.mask.shape) =>
        /\ proj.out.kind = "ok"
        /\ proj.out.arr.shape = proj.mask.shape
        /\ Len(proj.out.arr.data) = Len(proj.A.data)
        /\ \A cell \in FieldCells :
              At2(proj.out.arr, cell[1], cell[2]) =
                  IF At2(proj.mask, cell[1], cell[2]) THEN proj.fill_value
                  ELSE At2(proj.A, cell[1], cell[2])

\* C3 witness: a round trip of a field with distinct cells under a mask with
\* both True and False cells, the first cell masked, filled with NaN.
MaskRoundTripWitness ==
    /\ proj.op = "roundtrip" /\ proj.A.shape = proj.mask.shape
    /\ proj.out.kind = "ok"
    /\ proj.A.data[1] = 11
    /\ proj.mask.data[1] /\ ~proj.mask.data[2]
    /\ CountTrue(proj.mask.data) = 3
    /\ proj.fill_value = NaN

\* C10 (as claimed): reinstate_indices_by_mask given a values array whose
\* length differs from the number of False cells of the mask fails with a
\* size-mismatch error and returns no field.
ExpandRejectsSizeMismatch ==
    (proj.op = "reinstate" /\ Len(proj.values.data) # CountTrue(Not(proj.mask.data))) =>
        proj.out.kind = "ValueError"

\* C11 (as claimed): remove_indices_by_mask given a field and a mask of
\* different shapes, also when both hold the same number of elements, fails and
\* returns no values.
RemoveRejectsShapeMismatch ==
    (proj.op = "remove" /\ proj.A.shape # proj.mask.shape) => proj.out.kind # "ok"

(***************************************************************************)
(* TidalBandFilter: doodson_x0_filter.  Filtered values are in units of    *)
(* 1/30, the denominator of the kernel.                                    *)
(***************************************************************************)
\* The axis must have at least this many samples.
MinSamples == 39

\* The samples blanked at each end of the axis.
PadWidth == 19

\* A variant of kern with the weight 1 at the centre.
kernHeavyCentre ==
    <<1, 0, 1, 0, 0, 1, 0, 1, 1, 0, 2, 0, 1, 1, 0, 2, 1, 1, 2,
      1,
      2, 1, 1, 2, 0, 1, 1, 0, 2, 0, 1, 1, 0, 1, 0, 0, 1, 0, 1>>

\* The Doodson X0 weights, before the division by 30.
kern ==
    <<1, 0, 1, 0, 0, 1, 0, 1, 1, 0, 2, 0, 1, 1, 0, 2, 1, 1, 2,
      0,
      2, 1, 1, 2, 0, 1, 1, 0, 2, 0, 1, 1, 0, 1, 0, 0, 1, 0, 1>>

NoResult == [kind |-> "None", arr |-> Arr(<<0>>, <<>>)]

\* The sum over the taps k..Len(kern) of kern[k] * m[t + 19 - (k - 1)] for the
\* 1-based output position t; a tap that falls outside m adds nothing.
RECURSIVE Taps(_, _, _)
Taps(m, t, k) ==
    IF k > Len(kern) THEN 0
    ELSE LET i == t + (Len(kern) - 1) \div 2 - (k - 1)
         IN  (IF i \in DOMAIN m THEN kern[k] * m[i] ELSE 0) + Taps(m, t, k + 1)

\* A variant of Convolve that centres the kernel one sample late.
ConvolveOffCentre(m) ==
    [t \in DOMAIN m |->
        IF \E k \in DOMAIN kern :
               LET i == t + (Len(kern) - 1) \div 2 + 1 - (k - 1)
               IN  i \in DOMAIN m /\ IsNaN(m[i])
        THEN NaN
        ELSE Taps(m, t + 1, 1)]

\* np.convolve(m, kern, mode=1) ('same') for Len(m) >= Len(kern): output t is
\* the full convolution at t + 19.  A NaN sample under any tap, also under a
\* zero weight, makes the output NaN.
Convolve(m) ==
    [t \in DOMAIN m |->
        IF \E k \in DOMAIN kern :
               LET i == t + (Len(kern) - 1) \div 2 - (k - 1)
               IN  i \in DOMAIN m /\ IsNaN(m[i])
        THEN NaN
        ELSE Taps(m, t, 1)]

\* The 1-D slice of a 2-D array along axis ax at position j of the other axis.
AxisSlice(a, ax, j) ==
    IF ax = 0 THEN [t \in 1..a.shape[1] |-> At2(a, t - 1, j)]
    ELSE [t \in 1..a.shape[2] |-> At2(a, j, t - 1)]

\* np.apply_along_axis(lambda m: np.convolve(m, kern, mode=1), axis=ax, arr=a)
ApplyAlongAxis(a, ax) ==
    Arr(a.shape,
        [i \in DOMAIN a.data |->
            IF ax = 0
            THEN Convolve(AxisSlice(a, ax, ColOf(i, a.shape)))[RowOf(i, a.shape) + 1]
            ELSE Convolve(AxisSlice(a, ax, RowOf(i, a.shape)))[ColOf(i, a.shape) + 1]])

\* a.swapaxes(0, ax) of a 2-D array: a itself for ax = 0, its transpose for 1.
SwapAxes(a, ax) ==
    IF ax = 0 THEN a
    ELSE Arr(<<a.shape[2], a.shape[1]>>,
             [i \in DOMAIN a.data |->
                 At2(a, (i - 1) % a.shape[1], (i - 1) \div a.shape[1])])

\* A variant of PadBoundary that blanks one sample fewer at the end.
PadBoundaryShort(f) ==
    Arr(f.shape,
        [i \in DOMAIN f.data |->
            IF RowOf(i, f.shape) < PadWidth
               \/ RowOf(i, f.shape) >= f.shape[1] - (PadWidth - 1)
            THEN NaN ELSE f.data[i]])

\* filtered[:19] = np.nan; filtered[-19:] = np.nan
PadBoundary(f) ==
    Arr(f.shape,
        [i \in DOMAIN f.data |->
            IF RowOf(i, f.shape) < PadWidth \/ RowOf(i, f.shape) >= f.shape[1] - PadWidth
            THEN NaN ELSE f.data[i]])

\* A variant of Underlong that also refuses an axis of exactly 39 samples.
UnderlongOrEqual(n) == n <= MinSamples

\* elevation.shape[ax] < 39
Underlong(n) == n < MinSamples

\* doodson_x0_filter(elevation, ax)
doodson_x0_filter(elevation, ax) ==
    IF Underlong(elevation.shape[ax + 1]) THEN NoResult
    ELSE Returned(SwapAxes(PadBoundary(SwapAxes(ApplyAlongAxis(elevation, ax), ax)), ax))

(***************************************************************************)
(* The inputs of the Doodson filter, and its call.                         *)
(***************************************************************************)
TimeLens == {1, MinSamples - 1, MinSamples, MaxTimeLen}

\* An array whose time axis tax has n samples and whose other axis m: slice j
\* is a short ripple on the level j, with the value v at time (p + j) % n.
Elevation(n, m, tax, p, v) ==
    LET shape == IF tax = 0 THEN <<n, m>> ELSE <<m, n>>
        t(i) == IF tax = 0 THEN RowOf(i, shape) ELSE ColOf(i, shape)
        j(i) == IF tax = 0 THEN ColOf(i, shape) ELSE RowOf(i, shape)
    IN  Arr(shape, [i \in 1..(n * m) |->
                       IF t(i) = (p + j(i)) % n THEN v ELSE (t(i) % 3) + j(i)])

\* An array whose slice j along the time axis tax holds the constant c + j.
Level(n, m, tax, c) ==
    LET shape == IF tax = 0 THEN <<n, m>> ELSE <<m, n>>
    IN  Arr(shape, [i \in 1..(n * m) |->
                       c + (IF tax = 0 THEN ColOf(i, shape) ELSE RowOf(i, shape))])

InitTide ==
    /\ \/ \E n \in TimeLens, m \in 1..NSlices, tax \in 0..1, ax \in 0..1,
             p \in {0, PadWidth, MinSamples - 2}, v \in {7, NaN} :
             tide = [op |-> "args", elevation |-> Elevation(n, m, tax, p % n, v),
                     ax |-> ax, out |-> NoResult]
       \/ \E n \in TimeLens, m \in 1..NSlices, tax \in 0..1, ax \in 0..1,
             c \in {-2, 0, 5} :
             tide = [op |-> "args", elevation |-> Level(n, m, tax, c),
                     ax |-> ax, out |-> NoResult]
    /\ longitude = None /\ latitude = None /\ tree_nan = "keep" /\ original = Idle
    /\ geo = Idle /\ proj = Idle /\ dist = Idle /\ extr = Idle

Doodson ==
    /\ tide.op = "args"
    /\ tide' = [tide EXCEPT !.op = "called",
                            !.out = doodson_x0_filter(tide.elevation, tide.ax)]
    /\ UNCHANGED <<longitude, latitude, geo, proj, dist, extr, tree_nan, original>>

NextTide == Doodson

SpecTide == InitTide /\ [][NextTide]_vars

(***************************************************************************)
(* Properties of the Doodson filter.                                       *)
(***************************************************************************)
\* The length of the filtered axis, and of the other one.
AxisLen == tide.elevation.shape[tide.ax + 1]
OtherLen == tide.elevation.shape[2 - tide.ax]

\* Element t along the filtered axis of slice j of a 2-D array.
AlongAxis(a, t, j) == IF tide.ax = 0 THEN At2(a, t, j) ELSE At2(a, j, t)

\* C4: for an input whose filtered axis has n >= 39 samples, whichever axis is
\* filtered, the output has the input's shape and is NaN at the first 19 and
\* the last 19 positions along that axis in every slice orthogonal to it.
TidalBoundaryIsNaN ==
    (tide.op = "called" /\ AxisLen >= 39) =>
        /\ tide.out.kind = "ok"
        /\ tide.out.arr.shape = tide.elevation.shape
        /\ Len(tide.out.arr.data) = Len(tide.elevation.data)
        /\ \A j \in 0..(OtherLen - 1) :
              \A t \in (0..18) \cup ((AxisLen - 19)..(AxisLen - 1)) :
                  IsNaN(AlongAxis(tide.out.arr, t, j))

\* C4 witness: an array of two slices with 39 samples along axis 1 was
\* filtered; in each slice position 19 alone holds a number.
TidalBoundaryIsNaNWitness ==
    /\ tide.op = "called" /\ tide.ax = 1 /\ AxisLen = 39 /\ OtherLen = 2
    /\ tide.out.kind = "ok"
    /\ \A j \in 0..1 : \A t \in 0..38 :
          IsNaN(AlongAxis(tide.out.arr, t, j)) <=> t # 19

\* C5: with fewer than 39 samples along the chosen axis the call returns None:
\* no exception and no array; with 39 or more it returns an array; and no call
\* changes the caller's input.
UnderlongAxisReturnsNone ==
    /\ [](tide.op = "called" =>
            /\ AxisLen < 39 => tide.out = NoResult
            /\ AxisLen >= 39 => tide.out.kind = "ok")
    /\ [][tide.op # "idle" => tide'.elevation = tide.elevation]_vars

\* C5 witness: a call on an axis of 38 samples returned None.
UnderlongAxisReturnsNoneWitness ==
    tide.op = "called" /\ AxisLen = 38 /\ tide.out = NoResult

\* The sum over j = from..19 of w[j + 19] * series[i + j], w the 0-based
\* weights and series slice s of the input, 0-based along the filtered axis.
RECURSIVE WeightedWindow(_, _, _)
WeightedWindow(s, i, from) ==
    IF from > 19 THEN 0
    ELSE kern[from + 19 + 1] * AlongAxis(tide.elevation, i + from, s)
         + WeightedWindow(s, i, from + 1)

\* Some sample of the window i-19..i+19 of slice s is NaN.
WindowHasNaN(s, i) ==
    \E j \in -19..19 : IsNaN(AlongAxis(tide.elevation, i + j, s))

\* C21: for an input with n >= 39 samples along the filtered axis the output
\* has the input's shape, and at every interior position 19 <= i <= n-20 of
\* every slice it is (1/30) * sum over j in -19..19 of w[j+19] * series[i+j]
\* of that slice alone (NaN when the window holds a NaN); values are in units
\* of 1/30.
TidalInteriorValue ==
    (tide.op = "called" /\ AxisLen >= 39) =>
        /\ tide.out.kind = "ok"
        /\ tide.out.arr.shape = tide.elevation.shape
        /\ \A s \in 0..(OtherLen - 1) :
              \A i \in 19..(AxisLen - 20) :
                  AlongAxis(tide.out.arr, i, s) =
                      IF WindowHasNaN(s, i) THEN NaN ELSE WeightedWindow(s, i, -19)

\* C21 witness: an array of two slices with 40 samples along axis 1 was
\* filtered; the two interior positions of slice 0 hold different numbers, and
\* slice 1 differs from slice 0 at position 19.
TidalInteriorValueWitness ==
    /\ tide.op = "called" /\ tide.ax = 1 /\ AxisLen = 40 /\ OtherLen = 2
    /\ tide.out.kind = "ok"
    /\ ~IsNaN(AlongAxis(tide.out.arr, 19, 0)) /\ ~IsNaN(AlongAxis(tide.out.arr, 20, 0))
    /\ ~IsNaN(AlongAxis(tide.out.arr, 19, 1))
    /\ AlongAxis(tide.out.arr, 19, 0) # AlongAxis(tide.out.arr, 20, 0)
    /\ AlongAxis(tide.out.arr, 19, 0) # AlongAxis(tide.out.arr, 19, 1)

\* The sum of the weights k..39.
RECURSIVE KernSum(_)
KernSum(k) == IF k > Len(kern) THEN 0 ELSE kern[k] + KernSum(k + 1)

\* Slice s of the input holds the number c at every position of the filtered
\* axis.
SliceIsConstant(s, c) ==
    ~IsNaN(c) /\ \A t \in 0..(AxisLen - 1) : AlongAxis(tide.elevation, t, s) = c

\* C22: the 39 weights are palindromic (w[k] = w[38-k]), the centre weight is
\* 0 and they sum to 30; so a constant NaN-free slice of length >= 39 comes
\* back as that constant at every interior position (30 * c in units of 1/30).
DoodsonUnitGain ==
    /\ Len(kern) = 39
    /\ \A k \in 0..38 : kern[k + 1] = kern[38 - k + 1]
    /\ kern[19 + 1] = 0
    /\ KernSum(1) = 30
    /\ (tide.op = "called" /\ AxisLen >= 39) =>
          \A s \in 0..(OtherLen - 1) :
              SliceIsConstant(s, AlongAxis(tide.elevation, 0, s)) =>
                  \A i \in 19..(AxisLen - 20) :
                      AlongAxis(tide.out.arr, i, s) = 30 * AlongAxis(tide.elevation, 0, s)

\* C22 witness: an array of two constant slices, 5 and 6, with 40 samples
\* along axis 0 was filtered and holds 150 and 180 (5 and 6 in units of 1/30)
\* at the interior position 20.
DoodsonUnitGainWitness ==
    /\ tide.op = "called" /\ tide.ax = 0 /\ AxisLen = 40 /\ OtherLen = 2
    /\ SliceIsConstant(0, 5) /\ SliceIsConstant(1, 6)
    /\ tide.out.kind = "ok"
    /\ AlongAxis(tide.out.arr, 20, 0) = 150
    /\ AlongAxis(tide.out.arr, 20, 1) = 180

(***************************************************************************)
(* DistributionEstimator: normal_distribution, cumulative_distribution and *)
(* empirical_distribution.  Densities are fixed-point, in units of 1e-4;   *)
(* an empirical value is the fraction val[i] / den.                        *)
(***************************************************************************)
\* sample[~np.isnan(sample)]
DropNaN(sample) == SelectSeq(sample, LAMBDA v : ~IsNaN(v))

\* np.sort: s with v inserted before the first larger element.
RECURSIVE Insert(_, _)
Insert(s, v) ==
    IF s = <<>> THEN <<v>>
    ELSE IF v <= Head(s) THEN <<v>> \o s
    ELSE <<Head(s)>> \o Insert(Tail(s), v)

RECURSIVE Sort(_)
Sort(s) == IF s = <<>> THEN <<>> ELSE Insert(Sort(Tail(s)), Head(s))

\* A variant of Exceeds that also counts a sample equal to the support value.
ExceedsOrEquals(xi, ss) == xi >= ss

\* x > ss
Exceeds(xi, ss) == xi > ss

\* A variant of Increment that adds whole counts: the division is forgotten.
IncrementOfOne(n_sample) == 1

\* 1/n_sample, as the denominator of the steps added in the loop; the loop
\* does not run for an empty sample and the zeros stay 0/1.
Increment(n_sample) == IF n_sample = 0 THEN 1 ELSE n_sample

\* for ss in sample: edf[x>ss] = edf[x>ss] + 1/n_sample, counted in steps.
RECURSIVE EdfLoop(_, _, _)
EdfLoop(x, sample, edf) ==
    IF sample = <<>> THEN edf
    ELSE EdfLoop(x, Tail(sample),
                 [i \in DOMAIN x |->
                     IF Exceeds(x[i], Head(sample)) THEN edf[i] + 1 ELSE edf[i]])

\* empirical_distribution(x, sample)
empirical_distribution(x, sample) ==
    LET sorted == Sort(DropNaN(sample))
        n_sample == Len(sorted)
    IN  [kind |-> "ok", val |-> EdfLoop(x, sorted, Zeros(Len(x))),
         den |-> Increment(n_sample)]

\* The standard normal density at z = k/2, in units of 1e-4, for k = 0, 1, ...
PdfTable == <<3989, 3521, 2420, 1295, 540, 175, 44, 9, 1>>

\* normal_distribution(mu, sigma, x) for sigma 1 or 2:
\* exp(-((x - mu)/sigma)^2 / 2) / (sigma sqrt(2 pi)).
normal_distribution(mu, sigma, x) ==
    [i \in DOMAIN x |->
        LET k == Abs((2 * (x[i] - mu)) \div sigma)
        IN  (IF k + 1 \in DOMAIN PdfTable THEN PdfTable[k + 1] ELSE 0) \div sigma]

\* np.trapz(y, x): the sum of (x[k+1] - x[k]) (y[k] + y[k+1]) / 2; the value
\* is kept doubled, in units of 1/2 of 1e-4, so that the halves stay whole.
RECURSIVE Trapz(_, _)
Trapz(y, x) ==
    IF Len(x) < 2 THEN 0
    ELSE (x[2] - x[1]) * (y[1] + y[2]) + Trapz(Tail(y), Tail(x))

\* cumulative_distribution(mu, sigma, x, cdf_func): entry ii of the list is
\* np.trapz(pdf[:ii], x[:ii]).
cumulative_distribution(mu, sigma, x, cdf_func) ==
    IF cdf_func = "gaussian"
    THEN LET pdf == normal_distribution(mu, sigma, x)
         IN  [kind |-> "ok",
              val |-> [q \in 1..Len(x) |-> Trapz(SubSeq(pdf, 1, q - 1), SubSeq(x, 1, q - 1))],
              den |-> 1]
    ELSE [kind |-> "NotImplementedError", val |-> <<>>, den |-> 1]

(***************************************************************************)
(* The inputs of the distribution estimators, and their calls.             *)
(***************************************************************************)
SeqsUpTo(S, n) == UNION {[1..k -> S] : k \in 0..n}

Supports == SeqsUpTo({0, 1, 3}, MaxSupport)
Samples == SeqsUpTo({0, 1, 2, NaN}, MaxSample)

NoCurve == [kind |-> "none", val |-> <<>>, den |-> 1]

InitDist ==
    /\ \/ \E x \in Supports, sample \in Samples :
             dist = [op |-> "empirical args", x |-> x, sample |-> sample,
                     mu |-> 0, sigma |-> 1, cdf_func |-> "", out |-> NoCurve]
       \/ \E x \in Supports, mu \in 0..1, sigma \in 1..2,
             cdf_func \in {"gaussian", "empirical"} :
             dist = [op |-> "cumulative args", x |-> x, sample |-> <<>>,
                     mu |-> mu, sigma |-> sigma, cdf_func |-> cdf_func, out |-> NoCurve]
    /\ longitude = None /\ latitude = None /\ tree_nan = "keep" /\ original = Idle
    /\ geo = Idle /\ proj = Idle /\ tide = Idle /\ extr = Idle

Empirical ==
    /\ dist.op = "empirical args"
    /\ dist' = [dist EXCEPT !.op = "empirical",
                            !.out = empirical_distribution(dist.x, dist.sample)]
    /\ UNCHANGED <<longitude, latitude, geo, proj, tide, extr, tree_nan, original>>

Cumulative ==
    /\ dist.op = "cumulative args"
    /\ dist' = [dist EXCEPT !.op = "cumulative",
                            !.out = cumulative_distribution(dist.mu, dist.sigma, dist.x,
                                                            dist.cdf_func)]
    /\ UNCHANGED <<longitude, latitude, geo, proj, tide, extr, tree_nan, original>>

NextDist == Empirical \/ Cumulative

SpecDist == InitDist /\ [][NextDist]_vars

(***************************************************************************)
(* Properties of the distribution estimators.                              *)
(***************************************************************************)
\* The non-NaN values of the sample, by position, and those below a value.
RealSamples == {j \in DOMAIN dist.sample : ~IsNaN(dist.sample[j])}
SamplesBelow(v) == {j \in RealSamples : dist.sample[j] < v}

\* C6: empirical_distribution returns len(x) entries, entry i being the number
\* of non-NaN sample values strictly less than x[i] over the number of non-NaN
\* sample values (0/1 when there is none); NaN entries, the order of the sample
\* and sample values equal to x[i] do not count.
EmpiricalValue ==
    dist.op = "empirical" =>
        /\ dist.out.kind = "ok"
        /\ Len(dist.out.val) = Len(dist.x)
        /\ \A i \in DOMAIN dist.x :
              dist.out.val[i] = Cardinality(SamplesBelow(dist.x[i]))
        /\ dist.out.den = IF RealSamples = {} THEN 1 ELSE Cardinality(RealSamples)

\* C6 witness: a sample holding a NaN, out of order, with a value equal to a
\* support value, gave the fractions 0/2, 1/2 and 2/2.
EmpiricalValueWitness ==
    /\ dist.op = "empirical"
    /\ dist.x = <<0, 1, 3>>
    /\ dist.sample = <<1, NaN, 0>>
    /\ dist.out.val = <<0, 1, 2>> /\ dist.out.den = 2

\* C7: for a non-decreasing support x the empirical distribution is
\* non-decreasing along x and every entry lies in [0, 1].
EmpiricalMonotoneBounded ==
    (dist.op = "empirical"
        /\ \A i \in DOMAIN dist.x : i > 1 => dist.x[i - 1] <= dist.x[i]) =>
        /\ dist.out.den > 0
        /\ \A i \in DOMAIN dist.out.val :
              /\ 0 <= dist.out.val[i] /\ dist.out.val[i] <= dist.out.den
              /\ i > 1 => dist.out.val[i - 1] <= dist.out.val[i]

\* C7 witness: over an increasing support the distribution rose from 0 to 1.
EmpiricalMonotoneBoundedWitness ==
    /\ dist.op = "empirical"
    /\ dist.x = <<0, 1, 3>>
    /\ Len(dist.sample) = 3
    /\ dist.out.val[1] = 0 /\ dist.out.val[2] > 0 /\ dist.out.val[2] < dist.out.den
    /\ dist.out.val[3] = dist.out.den

\* C8 (as claimed): the gaussian cumulative distribution has len(x) entries,
\* entry i being the trapezoidal integral of the normal pdf over the samples
\* 0..i, the i-th included.
GaussianCdfIncludesSample ==
    (dist.op = "cumulative" /\ dist.cdf_func = "gaussian") =>
        /\ dist.out.kind = "ok"
        /\ Len(dist.out.val) = Len(dist.x)
        /\ \A q \in DOMAIN dist.x :
              dist.out.val[q] =
                  Trapz(SubSeq(normal_distribution(dist.mu, dist.sigma, dist.x), 1, q),
                        SubSeq(dist.x, 1, q))

(***************************************************************************)
(* ExtremaFinder: find_maxima with the comparison method.                  *)
(***************************************************************************)
\* The end of the plateau that starts at the 0-based position i: the first
\* position from a on that holds another value, or the last position.
RECURSIVE PlateauEnd(_, _, _)
PlateauEnd(y, i, a) ==
    IF a < Len(y) - 1 /\ y[a + 1] = y[i + 1] THEN PlateauEnd(y, i, a + 1) ELSE a

\* scipy.signal.find_peaks(y) without options: the 0-based positions, from i
\* on, of the samples that rise above both neighbours; of a flat top that
\* falls off on both sides, the middle (rounded down).  The first and the last
\* sample are never examined.
RECURSIVE LocalMaxima(_, _)
LocalMaxima(y, i) ==
    IF i >= Len(y) - 1 THEN <<>>
    ELSE IF y[i] < y[i + 1]
    THEN LET a == PlateauEnd(y, i, i + 1)
         IN  IF y[a + 1] < y[i + 1]
             THEN <<(i + a - 1) \div 2>> \o LocalMaxima(y, a + 1)
             ELSE LocalMaxima(y, i + 1)
    ELSE LocalMaxima(y, i + 1)

find_peaks(y) == LocalMaxima(y, 1)

\* A variant of TakeAt that reads the 0-based positions as 1-based.
TakeAtOneBased(a, peaks) == [k \in DOMAIN peaks |-> a[IF peaks[k] = 0 THEN 1 ELSE peaks[k]]]

\* a[peaks] for 0-based positions.
TakeAt(a, peaks) == [k \in DOMAIN peaks |-> a[peaks[k] + 1]]

\* find_maxima(x, y, method): a method other than 'comp' and 'cubic' runs off
\* the end of the function, which returns None.  The spline fit of 'cubic' is
\* not part of this model.
find_maxima(x, y, method) ==
    IF method = "comp"
    THEN [kind |-> "ok", x |-> TakeAt(x, find_peaks(y)), y |-> TakeAt(y, find_peaks(y))]
    ELSE IF method = "cubic"
    THEN [kind |-> "cubic", x |-> <<>>, y |-> <<>>]
    ELSE [kind |-> "None", x |-> <<>>, y |-> <<>>]

(***************************************************************************)
(* The inputs of find_maxima, and its call.                                *)
(***************************************************************************)
Series == SeqsUpTo(0..2, MaxSeries)

\* The x values of a series of n samples: the positions 0, 1, ..., or the
\* times 13, 16, ...
XValues(n, style) == [i \in 1..n |-> IF style = 0 THEN i - 1 ELSE 3 * i + 10]

InitExtrema ==
    /\ \E y \in Series, style \in 0..1, method \in {"comp", "linear"} :
          extr = [op |-> "args", x |-> XValues(Len(y), style), y |-> y,
                  method |-> method, out |-> [kind |-> "none", x |-> <<>>, y |-> <<>>]]
    /\ longitude = None /\ latitude = None /\ tree_nan = "keep" /\ original = Idle
    /\ geo = Idle /\ proj = Idle /\ tide = Idle /\ dist = Idle

FindMaxima ==
    /\ extr.op = "args"
    /\ extr' = [extr EXCEPT !.op = "called",
                            !.out = find_maxima(extr.x, extr.y, extr.method)]
    /\ UNCHANGED <<longitude, latitude, geo, proj, tide, dist, tree_nan, original>>

NextExtrema == FindMaxima

SpecExtrema == InitExtrema /\ [][NextExtrema]_vars

(***************************************************************************)
(* Properties of find_maxima.                                              *)
(***************************************************************************)
NoEqualNeighbours(y) == \A i \in DOMAIN y : i > 1 => y[i - 1] # y[i]

\* The 1-based positions, ascending, where y is greater than both neighbours.
StrictPeaks(y) ==
    SelectSeq([i \in DOMAIN y |-> i],
              LAMBDA i : i > 1 /\ i < Len(y) /\ y[i - 1] < y[i] /\ y[i] > y[i + 1])

\* C9: for a series without equal adjacent values, find_maxima with the
\* comparison method returns, in ascending order of position, exactly the pairs
\* (x[i], y[i]) at the positions where y[i] is greater than both neighbours;
\* the first and the last sample are never among them.
ComparisonExtrema ==
    (extr.op = "called" /\ extr.method = "comp" /\ NoEqualNeighbours(extr.y)) =>
        /\ extr.out.kind = "ok"
        /\ extr.out.x = [k \in DOMAIN StrictPeaks(extr.y) |-> extr.x[StrictPeaks(extr.y)[k]]]
        /\ extr.out.y = [k \in DOMAIN StrictPeaks(extr.y) |-> extr.y[StrictPeaks(extr.y)[k]]]

\* C9 witness: x = [0,1,2,3,4], y = [0,1,0,1,0] gave the peaks x = 1, 3 with
\* y = 1.
ComparisonExtremaWitness ==
    /\ extr.op = "called" /\ extr.method = "comp"
    /\ extr.x = <<0, 1, 2, 3, 4>> /\ extr.y = <<0, 1, 0, 1, 0>>
    /\ extr.out.x = <<1, 3>> /\ extr.out.y = <<1, 1>>


\* C12 (as claimed): find_maxima called with a method that is not one of the
\* recognised methods reports an error to the caller and does not return
\* normally.
UnsupportedMethodIsReported ==
    (extr.op = "called" /\ extr.method \notin {"comp", "cubic"}) =>
        extr.out.kind \notin {"ok", "None"}

=============================================================================
